---- MODULE Spec2Model ----
(***************************************************************************)
(* Model of the fixed-size worker thread pool of src/pool.cc (class        *)
(* ThreadPool, declared in the header stored as src/unnamed/part_000).     *)
(*                                                                         *)
(* Every critical section on mtx_ is one atomic step; a step ends where    *)
(* the code unlocks, blocks on a condition variable, or joins a thread.    *)
(* Condition variables are modelled by the threads blocked on them: a      *)
(* notify moves blocked threads to a woken position where they re-acquire  *)
(* the lock and re-test their predicate; a spurious wake-up does the same  *)
(* without a notify.                                                       *)
(***************************************************************************)
EXTENDS Integers, Sequences, FiniteSets

\* ------------------------------------------------------------- bounds
MaxThreads == 2
NumClients == 2
NumNames == 2
MaxTasks == 2
\* how far below zero the constructor argument ranges
MaxBadArg == 1

\* ------------------------------------------------------------- universe
WorkerIds == 1..MaxThreads
Clients == (MaxThreads + 1)..(MaxThreads + NumClients)
\* The client thread that constructed the pool and will destroy it
Owner == MaxThreads + 1
Threads == WorkerIds \cup Clients
Names == 1..NumNames
TaskIds == 1..MaxTasks
\* the values of the constructor's int num_threads
ThreadArgs == (0 - MaxBadArg)..MaxThreads

\* tasks_.find(name) == tasks_.end()
NoEntry == 0
\* the empty shared_ptr that tasks_[name] inserts for a missing key
NullInfo == -1

\* The Task subclasses of the test programs: CountingTask, a task whose
\* Run throws, WaitOtherTask, BarrierTask.
Kinds == {"count", "fault", "wait", "barrier"}
\* (kind, name waited on): the second component is 0 unless kind = "wait"
TaskArgs == {<<"count", 0>>, <<"fault", 0>>, <<"barrier", 0>>}
                \cup {<<"wait", n>> : n \in Names}
\* The tasks a test program submits: the stress, order and intra-task-wait
\* tests use counting and waiting tasks, concurrency_barrier_test uses
\* BarrierTasks alone.
Programs == {TaskArgs \ {<<"barrier", 0>>}, {<<"barrier", 0>>}}
\* BarrierTask::total: concurrency_barrier_test gives every BarrierTask the
\* number N of tasks it submits.
BarrierTotal == MaxTasks

VARIABLES
    numThreads,   \* constructor argument num_threads
    poolState,    \* "invalid" (constructor threw), "live", "destroying", "destroyed"
    stopping_,    \* ThreadPool::stopping_
    queue_,       \* ThreadPool::queue_, FIFO of names
    tasks_,       \* ThreadPool::tasks_: name -> TaskInfo (identified by its Task), or NoEntry
    started,      \* TaskInfo::started, per record
    finished,     \* TaskInfo::finished, per record
    waited,       \* TaskInfo::waited, per record
    waiters,      \* per record: number of WaitForTask calls that found it
    nextTask,     \* next Task object a caller creates with new
    kind,         \* per Task: its subclass
    target,       \* per WaitOtherTask: the name it waits on
    fate,         \* per Task: "none", "accepted", "rejected", "ignored"
    released,     \* per Task: number of times delete was applied to it
    runs,         \* per Task: number of times Run was invoked
    counter,      \* the shared atomic counter of the CountingTasks
    arrived,      \* the shared atomic started of the BarrierTasks
    pc,           \* per thread: position in the code
    info,         \* per worker: WorkerLoop's local info
    name,         \* per thread: the name parameter of its SubmitTask or WaitForTask call
    winfo,        \* per thread: WaitForTask's local info
    task,         \* per client: the task parameter of its SubmitTask call (0: none or null)
    joinIdx,      \* per client: position of Stop's join loop in threads_
    inDtor,       \* per client: the Stop in progress was called by ~ThreadPool
    result,       \* per client: outcome of the call that just returned, "none" once consumed
    reclaimed,    \* per name: the last event on the name was a reclaiming WaitForTask
    queuedAtDtor, \* the Tasks that were queued, not yet started, when ~ThreadPool began
    callers,      \* the client threads that call the pool
    program,      \* the tasks the callers submit
    multiWait     \* callers may break the one-waiter-per-task contract

vars == <<numThreads, poolState, stopping_, queue_, tasks_, started, finished,
          waited, waiters, nextTask, kind, target, fate, released, runs, counter,
          arrived, pc, info, name, winfo, task, joinIdx, inDtor, result,
          reclaimed, queuedAtDtor, callers, program, multiWait>>

poolVars == <<stopping_, queue_, tasks_, started, finished, waited>>
taskVars == <<nextTask, kind, target, fate>>
waitLocals == <<name, winfo>>
stopLocals == <<joinIdx, inDtor>>
\* changed by no step but the destructor's first
constVars == <<queuedAtDtor, callers, program, multiWait>>

Workers == {w \in WorkerIds : w <= numThreads}

Min(a, b) == IF a < b THEN a ELSE b

\* ------------------------------------------------------------- construction
\* A constructor without the argument test.
BadThreadCountNever(n) == FALSE

\* if (num_threads <= 0) throw std::invalid_argument(...)
BadThreadCount(n) == n <= 0

\* ThreadPool::ThreadPool: throws for num_threads <= 0, otherwise starts
\* num_threads threads at the top of WorkerLoop.
Construct(n) ==
    /\ numThreads = n
    /\ poolState = IF BadThreadCount(n) THEN "invalid" ELSE "live"
    /\ pc = [th \in Threads |->
               IF th \in Clients THEN "idle"
               ELSE IF ~BadThreadCount(n) /\ th <= n THEN "idle" ELSE "none"]
    /\ stopping_ = FALSE
    /\ queue_ = <<>>
    /\ tasks_ = [nm \in Names |-> NoEntry]
    /\ started = [t \in TaskIds |-> FALSE]
    /\ finished = [t \in TaskIds |-> FALSE]
    /\ waited = [t \in TaskIds |-> FALSE]

InitRest ==
    /\ nextTask = 1
    /\ kind = [t \in TaskIds |-> "none"]
    /\ target = [t \in TaskIds |-> 0]
    /\ fate = [t \in TaskIds |-> "none"]
    /\ released = [t \in TaskIds |-> 0]
    /\ waiters = [t \in TaskIds |-> 0]
    /\ runs = [t \in TaskIds |-> 0]
    /\ counter = 0
    /\ arrived = 0
    /\ info = [w \in WorkerIds |-> 0]
    /\ name = [th \in Threads |-> 0]
    /\ winfo = [th \in Threads |-> 0]
    /\ task = [c \in Clients |-> 0]
    /\ joinIdx = [c \in Clients |-> 0]
    /\ inDtor = [c \in Clients |-> FALSE]
    /\ result = [c \in Clients |-> "none"]
    /\ reclaimed = [nm \in Names |-> FALSE]
    /\ queuedAtDtor = {}

\* Any number of threads call the pool, each keeping WaitForTask's contract.
Init ==
    /\ \E n \in ThreadArgs : Construct(n)
    /\ InitRest
    /\ callers = Clients
    /\ program \in Programs
    /\ multiWait = FALSE

\* One thread calls the pool, as in the test programs.
InitOneCaller ==
    /\ \E n \in ThreadArgs : Construct(n)
    /\ InitRest
    /\ callers = {Owner}
    /\ program \in Programs
    /\ multiWait = FALSE

\* Any number of threads call the pool, and several may wait on one record.
InitMultiWait ==
    /\ \E n \in ThreadArgs : Construct(n)
    /\ InitRest
    /\ callers = Clients
    /\ program \in Programs
    /\ multiWait = TRUE

\* ------------------------------------------------------------- callers
\* A client thread may start a call when its previous call has returned and
\* been consumed, and the pool object exists and is not being destroyed.
CanCall(c) ==
    /\ c \in callers
    /\ poolState = "live"
    /\ pc[c] = "idle"
    /\ result[c] = "none"

\* WaitOtherTasks handed to the pool whose Run has not yet returned and
\* that will wait (or are waiting) on name nm.
PendingWaitTasks(nm) ==
    {t \in TaskIds : /\ fate[t] = "accepted"
                     /\ kind[t] = "wait"
                     /\ target[t] = nm
                     /\ ~finished[t]}

\* The caller's side of WaitForTask's contract (header: "exactly once per
\* submitted task"): nobody else waits, or is going to wait, on the record.
SoleWaiter(nm) ==
    IF multiWait \/ tasks_[nm] \notin TaskIds THEN TRUE
    ELSE /\ ~waited[tasks_[nm]]
         /\ PendingWaitTasks(nm) = {}

\* The caller's side for a WaitOtherTask: it waits on another task's name,
\* and on a name nobody else waits on.
SoleWaiterTask(nm, arg) ==
    IF multiWait \/ arg[1] # "wait" THEN TRUE
    ELSE /\ arg[2] # nm
         /\ PendingWaitTasks(arg[2]) = {}
         /\ IF tasks_[arg[2]] \in TaskIds THEN ~waited[tasks_[arg[2]]] ELSE TRUE

\* The caller consumes the outcome of the call that returned.
ClientReturn(c) ==
    /\ pc[c] = "idle"
    /\ result[c] # "none"
    /\ result' = [result EXCEPT ![c] = "none"]
    /\ name' = [name EXCEPT ![c] = 0]
    /\ winfo' = [winfo EXCEPT ![c] = 0]
    /\ task' = [task EXCEPT ![c] = 0]
    /\ UNCHANGED <<numThreads, waiters, poolState, poolVars, taskVars, released, runs,
                   counter, arrived, pc, info, stopLocals, reclaimed, constVars>>

\* ------------------------------------------------------------- condition variables
\* A SubmitTask whose signal on cv_queue_ is lost.
NotifyOneQueueLost(pcs, w) == pcs

\* cv_queue_.notify_one(): wakes one of the workers blocked in
\* cv_queue_.wait, if there is one; pcs is the pc map to change.
NotifyOneQueue(pcs, w) ==
    IF w \in Workers /\ pcs[w] = "cvq_blocked"
    THEN [pcs EXCEPT ![w] = "idle"]
    ELSE pcs

\* cv_queue_.notify_all(): wakes every worker blocked in cv_queue_.wait.
NotifyAllQueue(pcs) ==
    [th \in Threads |-> IF pcs[th] = "cvq_blocked" THEN "idle" ELSE pcs[th]]

\* A worker that sets finished without notifying.
NotifyAllInfoLost(pcs, t) == pcs

\* info->cv.notify_all(): wakes every thread blocked on record t.
NotifyAllInfo(pcs, t) ==
    [th \in Threads |->
        IF pcs[th] = "wait_blocked" /\ winfo[th] = t THEN "wait_woken"
        ELSE pcs[th]]

\* A wait on a condition variable may return without a notify; the woken
\* thread re-acquires mtx_ and re-tests its predicate.
SpuriousWake(th) ==
    /\ pc[th] \in {"cvq_blocked", "wait_blocked"}
    /\ pc' = [pc EXCEPT ![th] =
                IF pc[th] = "cvq_blocked" THEN "idle" ELSE "wait_woken"]
    /\ UNCHANGED <<numThreads, waiters, poolState, poolVars, taskVars, released, runs,
                   counter, arrived, info, waitLocals, task, stopLocals, result,
                   reclaimed, constVars>>

\* ------------------------------------------------------------- SubmitTask
\* SubmitTask without the stopping_ test.
SubmitIgnoredNever == FALSE

\* if (stopping_) { unlock; return; }
SubmitIgnored == stopping_

\* SubmitTask without the duplicate-name test.
NameTakenNever(nm) == FALSE

\* A registry that keeps a reclaimed name taken.
NameTakenOnceUsed(nm) == tasks_[nm] # NoEntry \/ reclaimed[nm]

\* tasks_.find(name) != tasks_.end()
NameTaken(nm) == tasks_[nm] # NoEntry

\* queue_.push_front(name) in place of push_back.
PushFront(q, nm) == <<nm>> \o q

\* A SubmitTask that queues the name twice.
PushBackTwice(q, nm) == Append(Append(q, nm), nm)

\* queue_.push_back(name)
PushBack(q, nm) == Append(q, nm)

\* SubmitTask(name, nullptr): throws before taking the lock.
SubmitNull(c, nm) ==
    /\ CanCall(c)
    /\ result' = [result EXCEPT ![c] = "NullTask"]
    /\ name' = [name EXCEPT ![c] = nm]
    /\ UNCHANGED <<numThreads, waiters, poolState, poolVars, taskVars, released, runs,
                   counter, arrived, pc, info, winfo, task, stopLocals, reclaimed,
                   constVars>>

\* SubmitTask(name, new T(...)) up to the unlock: the caller creates the
\* Task, then the locked section ignores, rejects or registers it.
SubmitTask(c, nm, arg) ==
    /\ CanCall(c)
    /\ nextTask <= MaxTasks
    /\ arg \in program
    /\ SoleWaiterTask(nm, arg)
    /\ LET t == nextTask IN
       /\ nextTask' = t + 1
       /\ kind' = [kind EXCEPT ![t] = arg[1]]
       /\ target' = [target EXCEPT ![t] = arg[2]]
       /\ name' = [name EXCEPT ![c] = nm]
       /\ task' = [task EXCEPT ![c] = t]
       /\ IF SubmitIgnored
          THEN /\ fate' = [fate EXCEPT ![t] = "ignored"]
               /\ result' = [result EXCEPT ![c] = "SubmitIgnored"]
               /\ UNCHANGED <<tasks_, queue_, pc, reclaimed>>
          ELSE IF NameTaken(nm)
          THEN /\ fate' = [fate EXCEPT ![t] = "rejected"]
               /\ pc' = [pc EXCEPT ![c] = "sub_delete"]
               /\ UNCHANGED <<tasks_, queue_, result, reclaimed>>
          ELSE /\ fate' = [fate EXCEPT ![t] = "accepted"]
               /\ tasks_' = [tasks_ EXCEPT ![nm] = t]
               /\ queue_' = PushBack(queue_, nm)
               /\ pc' = [pc EXCEPT ![c] = "sub_notify"]
               /\ reclaimed' = [reclaimed EXCEPT ![nm] = FALSE]
               /\ UNCHANGED result
    /\ UNCHANGED <<numThreads, waiters, poolState, stopping_, started, finished, waited,
                   released, runs, counter, arrived, info, winfo, stopLocals,
                   constVars>>

\* delete task; throw std::runtime_error("Duplicate task name submitted")
SubmitDelete(c) ==
    /\ pc[c] = "sub_delete"
    /\ released' = [released EXCEPT ![task[c]] = Min(2, @ + 1)]
    /\ pc' = [pc EXCEPT ![c] = "idle"]
    /\ result' = [result EXCEPT ![c] = "DuplicateTaskName"]
    /\ UNCHANGED <<numThreads, waiters, poolState, poolVars, taskVars, runs, counter, arrived,
                   info, waitLocals, task, stopLocals, reclaimed, constVars>>

\* cv_queue_.notify_one(), after the unlock; then SubmitTask returns.
SubmitNotify(c) ==
    /\ pc[c] = "sub_notify"
    /\ \E w \in Workers :
         /\ pc[w] = "cvq_blocked" \/ \A v \in Workers : pc[v] # "cvq_blocked"
         /\ pc' = [NotifyOneQueue(pc, w) EXCEPT ![c] = "idle"]
    /\ result' = [result EXCEPT ![c] = "SubmitOk"]
    /\ UNCHANGED <<numThreads, waiters, poolState, poolVars, taskVars, released, runs,
                   counter, arrived, info, waitLocals, task, stopLocals, reclaimed, constVars>>

\* ------------------------------------------------------------- WaitForTask
\* WaitForTask without the tasks_.erase(it).
EraseItSkipped(nm, t) == {tasks_}

\* tasks_.erase(it), it being the iterator found for (name, info).  When the
\* element was already erased by another waiter the iterator is dangling:
\* the erase may leave the map alone or remove whatever is stored under
\* the name now.
EraseIt(nm, t) ==
    IF tasks_[nm] = t
    THEN {[tasks_ EXCEPT ![nm] = NoEntry]}
    ELSE {tasks_, [tasks_ EXCEPT ![nm] = NoEntry]}

\* A wait for the record to be started instead of finished.
WaitPredicateStarted(t) == started[t]

\* The predicate of info->cv.wait(lk, ...)
WaitPredicate(t) == finished[t]

\* WaitForTask from the lock to the first unlock or block, by thread th (a
\* client, or the worker running a WaitOtherTask whose catch(...) in
\* WorkerLoop swallows the exception).
WaitEnter(th, nm) ==
    IF tasks_[nm] \notin TaskIds
    THEN /\ pc' = [pc EXCEPT ![th] = IF th \in Clients THEN "idle" ELSE "mark"]
         /\ result' = IF th \in Clients
                      THEN [result EXCEPT ![th] = "UnknownTaskName"]
                      ELSE result
         /\ name' = IF th \in Clients THEN [name EXCEPT ![th] = nm] ELSE name
         /\ UNCHANGED <<tasks_, waited, waiters, winfo, reclaimed>>
    ELSE LET t == tasks_[nm] IN
         /\ waited' = [waited EXCEPT ![t] = TRUE]
         /\ waiters' = [waiters EXCEPT ![t] = Min(Cardinality(Threads), @ + 1)]
         /\ name' = [name EXCEPT ![th] = nm]
         /\ winfo' = [winfo EXCEPT ![th] = t]
         /\ IF WaitPredicate(t)
            THEN /\ tasks_' \in EraseIt(nm, t)
                 /\ reclaimed' = [reclaimed EXCEPT ![nm] = TRUE]
                 /\ pc' = [pc EXCEPT ![th] = "wait_delete"]
            ELSE /\ pc' = [pc EXCEPT ![th] = "wait_blocked"]
                 /\ UNCHANGED <<tasks_, reclaimed>>
         /\ UNCHANGED result

\* A client calls WaitForTask(name).
WaitForTask(c, nm) ==
    /\ CanCall(c)
    /\ SoleWaiter(nm)
    /\ WaitEnter(c, nm)
    /\ UNCHANGED <<numThreads, poolState, stopping_, queue_, started, finished,
                   taskVars, released, runs, counter, arrived, info, task,
                   stopLocals, constVars>>

\* info->cv.wait returns control: the lock is re-acquired and the predicate
\* re-tested; when it holds the record is erased and the lock released.
WaitWake(th) ==
    /\ pc[th] = "wait_woken"
    /\ IF WaitPredicate(winfo[th])
       THEN /\ tasks_' \in EraseIt(name[th], winfo[th])
            /\ reclaimed' = [reclaimed EXCEPT ![name[th]] = TRUE]
            /\ pc' = [pc EXCEPT ![th] = "wait_delete"]
       ELSE /\ pc' = [pc EXCEPT ![th] = "wait_blocked"]
            /\ UNCHANGED <<tasks_, reclaimed>>
    /\ UNCHANGED <<numThreads, waiters, poolState, stopping_, queue_, started, finished,
                   waited, taskVars, released, runs, counter, arrived, info, waitLocals,
                   task, stopLocals, result, constVars>>

\* delete tptr, outside the lock; WaitForTask returns (to the client, or
\* into WaitOtherTask::Run, which stores its flag and returns).
WaitDelete(th) ==
    /\ pc[th] = "wait_delete"
    /\ released' = [released EXCEPT ![winfo[th]] = Min(2, @ + 1)]
    /\ name' = IF th \in Clients THEN name ELSE [name EXCEPT ![th] = 0]
    /\ winfo' = IF th \in Clients THEN winfo ELSE [winfo EXCEPT ![th] = 0]
    /\ pc' = [pc EXCEPT ![th] = IF th \in Clients THEN "idle" ELSE "mark"]
    /\ result' = IF th \in Clients THEN [result EXCEPT ![th] = "WaitOk"]
                 ELSE result
    /\ UNCHANGED <<numThreads, waiters, poolState, poolVars, taskVars, runs, counter, arrived,
                   info, task, stopLocals, reclaimed, constVars>>

\* ------------------------------------------------------------- WorkerLoop
\* The predicate of cv_queue_.wait(lk, ...)
QueuePredicate == stopping_ \/ queue_ # <<>>

\* A loop that breaks on stopping_ alone.
ShouldExitUndrained == stopping_

\* if (stopping_ && queue_.empty()) break;
ShouldExit == stopping_ /\ queue_ = <<>>

\* A loop that reads queue_.back() and pops the front.
FrontBack(q) == q[Len(q)]

\* name = queue_.front()
Front(q) == Head(q)

\* A loop that forgets queue_.pop_front().
PopFrontForgotten(q) == q

\* queue_.pop_front()
PopFront(q) == Tail(q)

\* A loop whose lock stays held while the task runs.
MtxFreeHeldAcrossRun == \A v \in Workers : pc[v] \notin {"run", "spin"}

\* std::unique_lock lk(mtx_) at the loop top: the block that holds the lock
\* ends before Run, so no worker running a task keeps the lock from it.
MtxFree == TRUE

\* The worker takes the lock and finds the predicate false: it blocks in
\* cv_queue_.wait, releasing the lock.
WorkerBlock(w) ==
    /\ w \in Workers
    /\ pc[w] = "idle"
    /\ MtxFree
    /\ ~QueuePredicate
    /\ pc' = [pc EXCEPT ![w] = "cvq_blocked"]
    /\ UNCHANGED <<numThreads, waiters, poolState, poolVars, taskVars, released, runs,
                   counter, arrived, info, waitLocals, task, stopLocals, result,
                   reclaimed, constVars>>

\* The predicate holds, stopping_ is set and the queue is empty: the loop
\* breaks and the thread ends.
WorkerExit(w) ==
    /\ w \in Workers
    /\ pc[w] = "idle"
    /\ MtxFree
    /\ QueuePredicate
    /\ ShouldExit
    /\ pc' = [pc EXCEPT ![w] = "exited"]
    /\ UNCHANGED <<numThreads, waiters, poolState, poolVars, taskVars, released, runs,
                   counter, arrived, info, waitLocals, task, stopLocals, result,
                   reclaimed, constVars>>

\* The predicate holds and the loop does not break: the head name is
\* dequeued, its record looked up with tasks_[name] and marked started.
\* tasks_[name] on a missing key inserts an empty shared_ptr, and
\* info->started then dereferences null.
WorkerDequeue(w) ==
    /\ w \in Workers
    /\ pc[w] = "idle"
    /\ MtxFree
    /\ QueuePredicate
    /\ ~ShouldExit
    /\ LET nm == Front(queue_) IN
       /\ queue_' = PopFront(queue_)
       /\ IF tasks_[nm] \in TaskIds
          THEN /\ info' = [info EXCEPT ![w] = tasks_[nm]]
               /\ started' = [started EXCEPT ![tasks_[nm]] = TRUE]
               /\ pc' = [pc EXCEPT ![w] = "run"]
               /\ UNCHANGED tasks_
          ELSE /\ tasks_' = [tasks_ EXCEPT ![nm] = NullInfo]
               /\ pc' = [pc EXCEPT ![w] = "crashed"]
               /\ UNCHANGED <<info, started>>
    /\ UNCHANGED <<numThreads, waiters, poolState, stopping_, finished, waited,
                   taskVars, released, runs, counter, arrived, waitLocals, task,
                   stopLocals, result, reclaimed, constVars>>

\* A loop without the catch: a Run that throws ends the worker thread.
AfterRunUncaught(k) == IF k = "fault" THEN "crashed" ELSE "mark"

\* try { info->task->Run(); } catch (...) { }: whether Run returns or
\* throws, the worker goes on to the block that sets finished.
AfterRun(k) == "mark"

\* info->task->Run() inside try/catch(...), without the lock.
\* CountingTask::Run adds one to the counter; a faulting Run throws and the
\* exception is swallowed; WaitOtherTask::Run calls WaitForTask(other);
\* BarrierTask::Run adds one to started and goes on to its polling loop.
RunTask(w) ==
    /\ w \in Workers
    /\ pc[w] = "run"
    /\ LET t == info[w] IN
       /\ runs' = [runs EXCEPT ![t] = Min(2, @ + 1)]
       /\ IF kind[t] = "wait"
          THEN /\ WaitEnter(w, target[t])
               /\ UNCHANGED <<counter, arrived>>
          ELSE /\ counter' = IF kind[t] = "count" THEN counter + 1 ELSE counter
               /\ arrived' = IF kind[t] = "barrier" THEN arrived + 1 ELSE arrived
               /\ pc' = [pc EXCEPT ![w] = IF kind[t] = "barrier" THEN "spin"
                                          ELSE AfterRun(kind[t])]
               /\ UNCHANGED <<tasks_, waited, waiters, waitLocals, reclaimed,
                              result>>
    /\ UNCHANGED <<numThreads, poolState, stopping_, queue_, started, finished,
                   taskVars, released, info, task, stopLocals, constVars>>

\* started->load() >= total, the exit condition of BarrierTask's loop
BarrierOpen == arrived >= BarrierTotal

\* BarrierTask::Run leaves its polling loop, adds one to proceed and
\* returns; an iteration that finds the barrier closed changes nothing.
BarrierSpin(w) ==
    /\ w \in Workers
    /\ pc[w] = "spin"
    /\ BarrierOpen
    /\ pc' = [pc EXCEPT ![w] = AfterRun(kind[info[w]])]
    /\ UNCHANGED <<numThreads, waiters, poolState, poolVars, taskVars, released, runs,
                   counter, arrived, info, waitLocals, task, stopLocals,
                   result, reclaimed, constVars>>

\* { lock; info->finished = true; info->cv.notify_all(); } and back to the
\* top of the loop.
WorkerMark(w) ==
    /\ w \in Workers
    /\ pc[w] = "mark"
    /\ finished' = [finished EXCEPT ![info[w]] = TRUE]
    /\ pc' = [NotifyAllInfo(pc, info[w]) EXCEPT ![w] = "idle"]
    /\ info' = [info EXCEPT ![w] = 0]
    /\ UNCHANGED <<numThreads, waiters, poolState, stopping_, queue_, tasks_, started,
                   waited, taskVars, released, runs, counter, arrived, waitLocals,
                   task, stopLocals, result, reclaimed, constVars>>

\* ------------------------------------------------------------- Stop
\* Stop without the already-stopping test.
AlreadyStoppingNever == FALSE

\* if (stopping_) return;
AlreadyStopping == stopping_

\* The locked section of Stop, called by a client.
Stop(c) ==
    /\ CanCall(c)
    /\ IF AlreadyStopping
       THEN /\ result' = [result EXCEPT ![c] = "StopNoop"]
            /\ UNCHANGED <<stopping_, pc>>
       ELSE /\ stopping_' = TRUE
            /\ pc' = [pc EXCEPT ![c] = "stop_notify"]
            /\ UNCHANGED result
    /\ UNCHANGED <<numThreads, waiters, poolState, queue_, tasks_, started, finished,
                   waited, taskVars, released, runs, counter, arrived, info, waitLocals,
                   task, stopLocals, reclaimed, constVars>>

\* cv_queue_.notify_all(), then the join loop starts at threads_[0].
StopNotify(c) ==
    /\ pc[c] = "stop_notify"
    /\ pc' = [NotifyAllQueue(pc) EXCEPT ![c] = "stop_join"]
    /\ joinIdx' = [joinIdx EXCEPT ![c] = 1]
    /\ UNCHANGED <<numThreads, waiters, poolState, poolVars, taskVars, released, runs,
                   counter, arrived, info, waitLocals, task, inDtor, result,
                   reclaimed, constVars>>

\* A Stop that does not wait for the thread.
JoinedAtOnce(w) == TRUE

\* t.join() returns once thread t has ended
Joined(w) == pc[w] = "exited"

\* One t.join() of the loop; after the last one Stop returns, to its
\* caller or into the destructor.
StopJoin(c) ==
    /\ pc[c] = "stop_join"
    /\ Joined(joinIdx[c])
    /\ IF joinIdx[c] < numThreads
       THEN /\ joinIdx' = [joinIdx EXCEPT ![c] = @ + 1]
            /\ UNCHANGED <<pc, result, inDtor>>
       ELSE /\ joinIdx' = [joinIdx EXCEPT ![c] = 0]
            /\ inDtor' = [inDtor EXCEPT ![c] = FALSE]
            /\ IF inDtor[c]
               THEN /\ pc' = [pc EXCEPT ![c] = "dtor_clear"]
                    /\ UNCHANGED result
               ELSE /\ pc' = [pc EXCEPT ![c] = "idle"]
                    /\ result' = [result EXCEPT ![c] = "StopOk"]
    /\ UNCHANGED <<numThreads, waiters, poolState, poolVars, taskVars, released, runs,
                   counter, arrived, info, waitLocals, task, reclaimed, constVars>>

\* ------------------------------------------------------------- ~ThreadPool
\* The owner destroys the pool; no other client is inside a member call.
\* if (!stopping_) Stop();
Destroy(c) ==
    /\ c = Owner
    /\ CanCall(c)
    /\ \A d \in Clients : pc[d] = "idle"
    /\ poolState' = "destroying"
    /\ queuedAtDtor' = {tasks_[queue_[i]] : i \in 1..Len(queue_)}
    /\ IF ~stopping_
       THEN /\ stopping_' = TRUE
            /\ inDtor' = [inDtor EXCEPT ![c] = TRUE]
            /\ pc' = [pc EXCEPT ![c] = "stop_notify"]
       ELSE /\ pc' = [pc EXCEPT ![c] = "dtor_clear"]
            /\ UNCHANGED <<stopping_, inDtor>>
    /\ UNCHANGED <<numThreads, waiters, queue_, tasks_, started, finished, waited,
                   taskVars, released, runs, counter, arrived, info, waitLocals,
                   task, joinIdx, result, reclaimed, callers, program,
                   multiWait>>

\* for (auto &kv : tasks_) delete kv.second->task;  tasks_.clear();
DtorClear(c) ==
    /\ pc[c] = "dtor_clear"
    /\ released' = [t \in TaskIds |->
                      IF \E nm \in Names : tasks_[nm] = t
                      THEN Min(2, released[t] + 1) ELSE released[t]]
    /\ tasks_' = [nm \in Names |-> NoEntry]
    /\ poolState' = "destroyed"
    /\ pc' = [pc EXCEPT ![c] = "idle"]
    /\ result' = [result EXCEPT ![c] = "Destroyed"]
    /\ UNCHANGED <<numThreads, waiters, stopping_, queue_, started, finished, waited,
                   taskVars, runs, counter, arrived, info, waitLocals, task,
                   stopLocals, reclaimed, constVars>>

\* ------------------------------------------------------------- specification
Next ==
    \/ \E c \in Clients, nm \in Names : SubmitNull(c, nm)
    \/ \E c \in Clients, nm \in Names, arg \in TaskArgs : SubmitTask(c, nm, arg)
    \/ \E c \in Clients : SubmitDelete(c)
    \/ \E c \in Clients : SubmitNotify(c)
    \/ \E c \in Clients, nm \in Names : WaitForTask(c, nm)
    \/ \E th \in Threads : WaitWake(th)
    \/ \E th \in Threads : WaitDelete(th)
    \/ \E th \in Threads : SpuriousWake(th)
    \/ \E c \in Clients : Stop(c)
    \/ \E c \in Clients : StopNotify(c)
    \/ \E c \in Clients : StopJoin(c)
    \/ \E c \in Clients : Destroy(c)
    \/ \E c \in Clients : DtorClear(c)
    \/ \E c \in Clients : ClientReturn(c)
    \/ \E w \in WorkerIds : WorkerBlock(w)
    \/ \E w \in WorkerIds : WorkerExit(w)
    \/ \E w \in WorkerIds : WorkerDequeue(w)
    \/ \E w \in WorkerIds : RunTask(w)
    \/ \E w \in WorkerIds : BarrierSpin(w)
    \/ \E w \in WorkerIds : WorkerMark(w)

Spec == Init /\ [][Next]_vars

\* A thread that can take a step inside WorkerLoop or inside a call it has
\* begun eventually takes it.  Nothing obliges a caller to begin a call,
\* and nothing obliges a condition variable to wake without a notify.
WorkerStep(w) ==
    \/ WorkerBlock(w) \/ WorkerExit(w) \/ WorkerDequeue(w)
    \/ RunTask(w) \/ BarrierSpin(w) \/ WorkerMark(w)
    \/ WaitWake(w) \/ WaitDelete(w)

CallStep(c) ==
    \/ SubmitDelete(c) \/ SubmitNotify(c)
    \/ WaitWake(c) \/ WaitDelete(c)
    \/ StopNotify(c) \/ StopJoin(c) \/ DtorClear(c)

Fairness ==
    /\ \A w \in WorkerIds : WF_vars(WorkerStep(w))
    /\ \A c \in Clients : WF_vars(CallStep(c))

FairSpec == InitOneCaller /\ [][Next]_vars /\ Fairness

\* The pool under callers that do not keep WaitForTask's contract.
SpecMultiWait == InitMultiWait /\ [][Next]_vars

\* ------------------------------------------------------------- type invariant
TypeOK ==
    /\ numThreads \in ThreadArgs
    /\ poolState \in {"invalid", "live", "destroying", "destroyed"}
    /\ stopping_ \in BOOLEAN
    /\ queue_ \in Seq(Names)
    /\ tasks_ \in [Names -> TaskIds \cup {NoEntry, NullInfo}]
    /\ nextTask \in 1..(MaxTasks + 1)
    /\ \A t \in TaskIds : released[t] \in 0..2 /\ runs[t] \in 0..2
    /\ \A t \in TaskIds : waiters[t] \in 0..Cardinality(Threads)

\* ------------------------------------------------------------- vocabulary of the properties
Accepted(t) == fate[t] = "accepted"
Registered(t) == \E nm \in Names : tasks_[nm] = t
AllExited == \A w \in Workers : pc[w] = "exited"
StopInProgress == \E c \in Clients : pc[c] \in {"stop_notify", "stop_join"}

\* Before the destructor's clear, only WaitForTask deletes an accepted Task.
WaitedOn(t) == Accepted(t) /\ released[t] >= 1 /\ poolState # "destroyed"

\* Run was invoked on t and has returned or thrown.
RunReturned(t) ==
    /\ runs[t] >= 1
    /\ \A w \in Workers : info[w] = t => pc[w] = "mark"

\* No worker is left, nothing is queued, every registered record is finished.
Quiesced ==
    /\ AllExited
    /\ queue_ = <<>>
    /\ \A nm \in Names : tasks_[nm] \in TaskIds => finished[tasks_[nm]]

\* The step in which client c calls SubmitTask with a non-null task.
SubmitCallStep(c) ==
    /\ pc[c] = "idle" /\ result[c] = "none"
    /\ task[c] = 0 /\ task'[c] # 0

\* The step in which client c calls WaitForTask.
WaitCallStep(c) ==
    /\ pc[c] = "idle" /\ result[c] = "none"
    /\ \/ result'[c] = "UnknownTaskName"
       \/ pc'[c] \in {"wait_blocked", "wait_delete"}

OthersKeepPc(c) == \A th \in Threads \ {c} : pc'[th] = pc[th]

\* No Task handed to the pool so far waits on another task in its Run,
\* neither for its end (WaitOtherTask) nor for its start (BarrierTask).
NoWaitTasks == \A t \in TaskIds : kind[t] \notin {"wait", "barrier"}

\* ------------------------------------------------------------- C1
\* C1: every accepted task that was waited on has had its Run invoked
\* exactly once, no Run is ever invoked twice, and once all the accepted
\* counting tasks have been waited on the counter equals their number.
C1_RunExactlyOnce ==
    /\ \A t \in TaskIds : runs[t] <= 1
    /\ \A t \in TaskIds : WaitedOn(t) => runs[t] = 1
    /\ LET C == {t \in TaskIds : Accepted(t) /\ kind[t] = "count"} IN
       (\A t \in C : WaitedOn(t)) => counter = Cardinality(C)

C1_Witness ==
    LET C == {t \in TaskIds : Accepted(t) /\ kind[t] = "count"} IN
    /\ poolState = "live"
    /\ Cardinality(C) >= 2
    /\ \A t \in C : WaitedOn(t)
    /\ counter = Cardinality(C)

\* ------------------------------------------------------------- C2
\* C2: a WaitForTask that is past its wait, or has returned, waited on a
\* record whose finished flag is set and whose Run has returned; and no
\* thread stays blocked in WaitForTask on a finished record, so a call on
\* an already finished task does not block.
C2_WaitReturnsAfterFinish ==
    /\ \A th \in Threads :
         pc[th] = "wait_delete" =>
            finished[winfo[th]] /\ RunReturned(winfo[th])
    /\ \A c \in Clients :
         result[c] = "WaitOk" =>
            finished[winfo[c]] /\ RunReturned(winfo[c])
    /\ \A th \in Threads :
         pc[th] = "wait_blocked" => ~finished[winfo[th]]

C2_Witness ==
    \E c \in Clients :
        /\ result[c] = "WaitOk"
        /\ finished[winfo[c]]
        /\ runs[winfo[c]] = 1

\* ------------------------------------------------------------- C3
\* C3: a WaitForTask call fails with UnknownTaskName exactly when the name
\* is not in the registry, the failing call changes nothing of the pool,
\* and a name reclaimed by a successful WaitForTask stays out of the
\* registry until it is submitted again.
C3_UnknownTaskName ==
    /\ [](\A nm \in Names : reclaimed[nm] => tasks_[nm] = NoEntry)
    /\ [][\A c \in Clients :
            WaitCallStep(c) =>
              /\ (tasks_[name'[c]] = NoEntry) <=> (result'[c] = "UnknownTaskName")
              /\ result'[c] = "UnknownTaskName" =>
                   /\ UNCHANGED <<poolVars, taskVars, released, runs, counter>>
                   /\ pc' = pc]_vars

C3_Witness ==
    \E c \in Clients :
        /\ result[c] = "UnknownTaskName"
        /\ reclaimed[name[c]]

\* ------------------------------------------------------------- C4
\* C4: on a pool that is not stopping, SubmitTask under a registered name
\* is rejected: the registry, the queue and every record stay as they
\* are, the rejected Task is deleted once (by the time the call fails with
\* DuplicateTaskName) and is never registered or run.
C4_DuplicateTaskName ==
    /\ [](\A t \in TaskIds :
            fate[t] = "rejected" =>
              /\ runs[t] = 0
              /\ ~Registered(t)
              /\ released[t] =
                   IF \E c \in Clients : pc[c] = "sub_delete" /\ task[c] = t
                   THEN 0 ELSE 1)
    /\ [][\A c \in Clients :
            /\ (SubmitCallStep(c) /\ ~stopping_ /\ tasks_[name'[c]] # NoEntry) =>
                 /\ pc'[c] = "sub_delete"
                 /\ fate'[task'[c]] = "rejected"
                 /\ OthersKeepPc(c)
                 /\ UNCHANGED <<poolVars, released, runs, counter>>
            /\ (pc[c] = "sub_delete" /\ pc'[c] # "sub_delete") =>
                 /\ result'[c] = "DuplicateTaskName"
                 /\ \A t \in TaskIds \ {task[c]} : released'[t] = released[t]
                 /\ UNCHANGED <<poolVars, runs, counter>>]_vars

C4_Witness ==
    \E c \in Clients :
        /\ result[c] = "DuplicateTaskName"
        /\ released[task[c]] = 1
        /\ tasks_[name[c]] \in TaskIds
        /\ tasks_[name[c]] # task[c]

\* ------------------------------------------------------------- C5
\* C5: once stopping_ is set, SubmitTask with a non-null task returns
\* without an error and changes nothing of the pool; the Task stays with
\* the caller: it is never registered, run or deleted by the pool.
C5_SubmitAfterStop ==
    /\ [](\A t \in TaskIds :
            fate[t] = "ignored" =>
              runs[t] = 0 /\ released[t] = 0 /\ ~Registered(t))
    /\ [][\A c \in Clients :
            (SubmitCallStep(c) /\ stopping_) =>
              /\ result'[c] = "SubmitIgnored"
              /\ fate'[task'[c]] = "ignored"
              /\ pc' = pc
              /\ UNCHANGED <<poolVars, released, runs, counter>>]_vars

C5_Witness ==
    \E c \in Clients :
        /\ result[c] = "SubmitIgnored"
        /\ stopping_
        /\ fate[task[c]] = "ignored"

\* ------------------------------------------------------------- C6
\* C6 as claimed: whenever any Stop call has returned, also one made while
\* another Stop is in progress, the pool is quiesced.
C6_AnyStopReturnQuiesced ==
    \A c \in Clients : result[c] \in {"StopOk", "StopNoop"} => Quiesced

\* C6 as amended: when the Stop call that set stopping_ has returned (also
\* the one the destructor makes), and when a Stop call has returned while
\* no other Stop is in progress, no worker is left, the queue is empty and
\* every registered record is finished.
C6_StopReturnQuiesced ==
    \A c \in Clients :
        \/ result[c] = "StopOk"
        \/ pc[c] = "dtor_clear"
        \/ result[c] = "StopNoop" /\ ~StopInProgress
        => Quiesced

C6_Witness ==
    \E c \in Clients :
        /\ result[c] = "StopOk"
        /\ \E t \in TaskIds : Accepted(t) /\ Registered(t) /\ finished[t]

\* ------------------------------------------------------------- C7
\* C7: a Stop call returns as a no-op only when stopping_ was already set,
\* and then changes nothing of the pool and of no thread; no call enters
\* Stop's notify-and-join part with stopping_ already set.
C7_StopIdempotent ==
    [][\A c \in Clients :
         /\ (result[c] = "none" /\ result'[c] = "StopNoop") =>
              /\ stopping_
              /\ pc' = pc
              /\ UNCHANGED <<poolVars, poolState, taskVars, released, runs,
                             counter, info>>
         /\ (pc[c] = "idle" /\ pc'[c] = "stop_notify") => ~stopping_]_vars

C7_Witness ==
    \E c \in Clients : result[c] = "StopNoop" /\ stopping_

\* ------------------------------------------------------------- C9
\* C9 as claimed: the tasks that were queued when the destructor began are
\* never run.
C9_QueuedAtTeardownNotRun ==
    \A t \in queuedAtDtor : runs[t] = 0

\* C9 as amended: the tasks that were queued when the destructor began are
\* run, once each, by the workers draining the queue for the implicit
\* Stop; their Tasks are deleted once, and only after their Run.
C9_QueuedAtTeardownDrained ==
    /\ poolState = "destroyed" =>
         \A t \in queuedAtDtor :
            runs[t] = 1 /\ finished[t] /\ released[t] = 1
    /\ \A t \in queuedAtDtor : released[t] >= 1 => finished[t]

C9_Witness ==
    /\ poolState = "destroyed"
    /\ \E t \in queuedAtDtor : runs[t] = 1 /\ released[t] = 1

\* ------------------------------------------------------------- C10
\* C10: Tasks are numbered in the order SubmitTask's locked section took
\* them; of two accepted tasks the later is never started while the
\* earlier is not.
C10_FifoDispatch ==
    \A t1, t2 \in TaskIds :
        (t1 < t2 /\ Accepted(t1) /\ Accepted(t2) /\ started[t2]) => started[t1]

C10_Witness ==
    \E t1, t2 \in TaskIds :
        /\ t1 < t2 /\ Accepted(t1) /\ Accepted(t2)
        /\ started[t1] /\ started[t2]
        /\ finished[t2] /\ ~finished[t1]

\* ------------------------------------------------------------- C8
\* Worker w runs task t1, whose Run is blocked in WaitForTask on the record
\* of t2, and t2 is still queued and is not itself a waiting task.
WaitsOnQueued(w, t1, t2) ==
    /\ w \in Workers
    /\ pc[w] = "wait_blocked"
    /\ info[w] = t1
    /\ winfo[w] = t2
    /\ t1 # t2
    /\ ~started[t2]
    /\ kind[t2] # "wait"

\* The tasks queued ahead of t2.
AheadOf(t2) ==
    {tasks_[queue_[i]] : i \in {j \in 1..Len(queue_) :
        \E k \in (j + 1)..Len(queue_) : tasks_[queue_[k]] = t2}}

\* Another worker than w is in its loop and not inside a waiting task.
OtherWorkerFree(w) ==
    \E v \in Workers \ {w} :
        \/ pc[v] \in {"idle", "cvq_blocked", "mark"}
        \/ pc[v] = "run" /\ kind[info[v]] # "wait"

\* Both tasks are finished and no client is still inside a WaitForTask on
\* the waiting task.
BothFinished(t1, t2) ==
    /\ finished[t1]
    /\ finished[t2]
    /\ \A c \in Clients :
         winfo[c] = t1 => pc[c] \notin {"wait_blocked", "wait_woken"}

\* C8 as claimed: for every thread count, a task waiting on a queued task
\* whose Run terminates is eventually finished, and so is the other task,
\* and a client waiting on the first gets past its wait.
C8_WaitOnQueuedFinishes ==
    \A w \in WorkerIds, t1, t2 \in TaskIds :
        WaitsOnQueued(w, t1, t2) ~> BothFinished(t1, t2)

\* C8 as amended: a task waiting on a queued task whose Run terminates is
\* eventually finished, and so is the other task, and a client waiting on
\* the first gets past its wait, provided another worker is free (not
\* inside a waiting task) and no waiting task is queued ahead of the
\* awaited one.  A pool with a single worker never meets the proviso.
C8_WaitOnQueuedFinishesWithFreeWorker ==
    \A w \in WorkerIds, t1, t2 \in TaskIds :
        (/\ WaitsOnQueued(w, t1, t2)
         /\ OtherWorkerFree(w)
         /\ \A t \in AheadOf(t2) : kind[t] # "wait")
        ~> BothFinished(t1, t2)

\* The waiting task is blocked on the queued one, a client is blocked on
\* the waiting task, and the other worker is free.
C8_Witness ==
    \E w \in WorkerIds, t1, t2 \in TaskIds :
        /\ WaitsOnQueued(w, t1, t2)
        /\ OtherWorkerFree(w)
        /\ \A t \in AheadOf(t2) : kind[t] # "wait"
        /\ \E c \in Clients : pc[c] = "wait_blocked" /\ winfo[c] = t1

\* ------------------------------------------------------------- C11
\* The workers inside WorkerLoop: started and not ended.
LiveWorkers == {w \in WorkerIds : pc[w] \notin {"none", "exited", "crashed"}}

\* C11: a constructor argument <= 0 makes construction fail and no worker
\* exists; an argument n > 0 starts exactly n workers on an empty queue and
\* an empty registry, and as long as stopping_ is not set exactly n workers
\* are live and none has exited.
C11_ConstructAndLiveWorkers ==
    /\ numThreads > 0 =>
         /\ poolState = "live"
         /\ Cardinality(LiveWorkers) = numThreads
         /\ queue_ = <<>>
         /\ \A nm \in Names : tasks_[nm] = NoEntry
    /\ [](numThreads <= 0 =>
            /\ poolState = "invalid"
            /\ \A w \in WorkerIds : pc[w] = "none")
    /\ []((numThreads > 0 /\ ~stopping_) =>
            /\ Cardinality(LiveWorkers) = numThreads
            /\ \A w \in WorkerIds : pc[w] # "exited")

\* Both workers of a live pool are busy and a task has already finished.
C11_Witness ==
    /\ numThreads = MaxThreads
    /\ ~stopping_
    /\ Cardinality(LiveWorkers) = numThreads
    /\ \E t \in TaskIds : finished[t]
    /\ \E w \in WorkerIds : pc[w] = "run"

\* ------------------------------------------------------------- C12
\* The step in which worker w leaves the Run of a task whose Run throws.
FaultStep(w) ==
    /\ pc[w] = "run"
    /\ kind[info[w]] = "fault"
    /\ pc'[w] # "run"

\* The step in which worker w leaves the block that sets finished.
MarkStep(w) ==
    /\ pc[w] = "mark"
    /\ pc'[w] # "mark"

\* Task t is registered and its name is in the dispatch queue.
Queued(t) ==
    \E i \in 1..Len(queue_) : tasks_[queue_[i]] = t

\* Task t is registered under the name at the head of the queue.
HeadOfQueue(t) ==
    /\ queue_ # <<>>
    /\ tasks_[Head(queue_)] = t

\* Worker w is in the Run of a task whose Run throws, or between that Run
\* and the block that sets finished.
RunsFault(w) ==
    /\ pc[w] \in {"run", "mark"}
    /\ kind[info[w]] = "fault"

\* C12: a Run that throws changes nothing of any caller or of the pool: the
\* worker goes on to set finished; the step that sets finished wakes every
\* thread blocked on the record and returns the worker to the top of its
\* loop; a started faulting task is eventually finished, a client waiting on
\* it eventually returns from WaitForTask; and while a worker is in a
\* faulting Run or on its way out of it, the task at the head of the queue
\* is eventually run, and so is every queued task as long as no task waits
\* on another.
C12_FaultContained ==
    /\ [][\A w \in WorkerIds :
            /\ FaultStep(w) =>
                 /\ pc'[w] = "mark"
                 /\ OthersKeepPc(w)
                 /\ UNCHANGED <<poolVars, poolState, result, released, info>>
            /\ MarkStep(w) =>
                 /\ finished'[info[w]]
                 /\ pc'[w] = "idle"
                 /\ \A th \in Threads :
                      (pc[th] = "wait_blocked" /\ winfo[th] = info[w])
                         => pc'[th] = "wait_woken"]_vars
    /\ \A t \in TaskIds :
         (kind[t] = "fault" /\ started[t]) ~> finished[t]
    /\ \A t \in TaskIds, c \in Clients :
         (kind[t] = "fault" /\ started[t] /\ winfo[c] = t
             /\ pc[c] \in {"wait_blocked", "wait_woken"})
         ~> (result[c] = "WaitOk" /\ winfo[c] = t)
    /\ \A w \in WorkerIds, t2 \in TaskIds :
         (RunsFault(w) /\ HeadOfQueue(t2)) ~> (runs[t2] = 1)
    /\ \A w \in WorkerIds, t2 \in TaskIds :
         (RunsFault(w) /\ Queued(t2) /\ NoWaitTasks)
         ~> (runs[t2] = 1 \/ ~NoWaitTasks)

\* A client is blocked on a faulting task that a worker is running, and
\* another task is queued behind it.
C12_Witness ==
    \E c \in Clients, t1, t2 \in TaskIds, w \in WorkerIds :
        /\ kind[t1] = "fault"
        /\ pc[w] = "run" /\ info[w] = t1
        /\ pc[c] = "wait_blocked" /\ winfo[c] = t1
        /\ Queued(t2)

\* ------------------------------------------------------------- C13
\* C13: a worker ends only by a step taken with stopping_ set and the queue
\* empty; whenever some worker has ended the queue is empty; and a worker
\* at the top of its loop with stopping_ set and a non-empty queue, when it
\* moves, dequeues the head name and goes on to run its task.
C13_ExitOnlyWhenDrained ==
    /\ [](\A w \in WorkerIds : pc[w] = "exited" => stopping_ /\ queue_ = <<>>)
    /\ [][\A w \in WorkerIds :
            /\ (pc[w] # "exited" /\ pc'[w] = "exited") =>
                 /\ stopping_ /\ queue_ = <<>>
                 /\ UNCHANGED <<stopping_, queue_>>
            /\ (pc[w] = "idle" /\ pc'[w] # "idle" /\ stopping_ /\ queue_ # <<>>) =>
                 /\ pc'[w] = "run"
                 /\ info'[w] = tasks_[Head(queue_)]
                 /\ started'[info'[w]]
                 /\ queue_' = Tail(queue_)]_vars

\* One worker has ended while the other runs a task it dequeued after the
\* destructor had set stopping_.
C13_Witness ==
    /\ stopping_
    /\ queue_ = <<>>
    /\ \E w \in WorkerIds : pc[w] = "exited"
    /\ \E v \in WorkerIds : pc[v] = "run" /\ info[v] \in queuedAtDtor

\* ------------------------------------------------------------- C14

\* C14: as long as no task waits on another in its Run, every accepted
\* task is eventually finished, whether or not Stop or the destructor is
\* called after its submission, and a thread blocked in WaitForTask
\* eventually returns from it.
C14_AcceptedEventuallyFinished ==
    /\ \A t \in TaskIds :
         (Accepted(t) /\ NoWaitTasks) ~> (finished[t] \/ ~NoWaitTasks)
    /\ \A c \in Clients, t \in TaskIds :
         (pc[c] = "wait_blocked" /\ winfo[c] = t /\ NoWaitTasks)
         ~> ((result[c] = "WaitOk" /\ winfo[c] = t) \/ ~NoWaitTasks)

\* Every task was accepted and is finished, Stop has been called, and a
\* WaitForTask called after it has returned.
C14_Witness ==
    /\ NoWaitTasks
    /\ stopping_
    /\ \A t \in TaskIds : Accepted(t) /\ finished[t]
    /\ \E c \in Clients : result[c] = "WaitOk"

\* ------------------------------------------------------------- C15
\* The records that are started and not finished.
InFlight == {t \in TaskIds : started[t] /\ ~finished[t]}

\* The BarrierTasks the pool accepted.
Barriers == {t \in TaskIds : Accepted(t) /\ kind[t] = "barrier"}

\* As in concurrency_barrier_test: as many workers as BarrierTasks, each
\* BarrierTask waiting for all of them to have started.
BarrierReady ==
    /\ numThreads = BarrierTotal
    /\ Cardinality(Barriers) = BarrierTotal

\* C15: at most as many records are started and not finished as there are
\* workers; no BarrierTask finishes before all of them have started; and
\* with N workers and N accepted BarrierTasks of which some has not started
\* its Run, all N are eventually in flight at the same time, and all N are
\* eventually finished.
C15_ConcurrentDispatch ==
    /\ [](Cardinality(InFlight) <= Cardinality(Workers))
    /\ [](\A t \in Barriers : finished[t] => arrived >= BarrierTotal)
    /\ (BarrierReady /\ arrived < BarrierTotal)
         ~> (Barriers \subseteq InFlight /\ arrived = BarrierTotal)
    /\ BarrierReady ~> (\A t \in Barriers : finished[t])

\* Every worker is inside the polling loop of a BarrierTask and the last
\* of them has just arrived.
C15_Witness ==
    /\ BarrierReady
    /\ Barriers \subseteq InFlight
    /\ arrived = BarrierTotal
    /\ \A w \in Workers : pc[w] = "spin"

\* ------------------------------------------------------------- C16
\* C16: with every record waited on by at most one caller, no accepted Task
\* is ever deleted twice; a Task deleted while the pool exists was deleted
\* by the WaitForTask that waited on its record; and once the pool is
\* destroyed the registry is empty and every accepted Task has been
\* deleted exactly once.
C16_ReleasedExactlyOnce ==
    /\ \A t \in TaskIds : Accepted(t) => released[t] <= 1
    /\ \A t \in TaskIds :
         (Accepted(t) /\ released[t] = 1 /\ poolState # "destroyed")
            => waited[t] /\ ~Registered(t)
    /\ poolState = "destroyed" =>
         /\ \A nm \in Names : tasks_[nm] = NoEntry
         /\ \A t \in TaskIds : Accepted(t) => released[t] = 1

\* The pool is destroyed; one Task was deleted by its WaitForTask, another,
\* never waited on, by the destructor.
C16_Witness ==
    /\ poolState = "destroyed"
    /\ \E t1, t2 \in TaskIds :
         /\ Accepted(t1) /\ waited[t1] /\ released[t1] = 1
         /\ Accepted(t2) /\ ~waited[t2] /\ released[t2] = 1

\* ------------------------------------------------------------- C17
\* The threads whose WaitForTask on record t is past the erase.
Reclaimers(t) ==
    {th \in Threads :
        /\ winfo[th] = t
        /\ \/ pc[th] = "wait_delete"
           \/ th \in Clients /\ result[th] = "WaitOk"}

\* Two threads were blocked in WaitForTask on record t.
TwoWaiters(t) ==
    \E a, b \in Threads :
        /\ a # b
        /\ winfo[a] = t /\ winfo[b] = t
        /\ pc[a] \in {"wait_blocked", "wait_woken"}
        /\ pc[b] \in {"wait_blocked", "wait_woken"}

\* C17 as claimed: also when two threads wait on the same record, at most
\* one WaitForTask call gets past the erase of the record and no Task is
\* deleted twice.
C17_OneReclaimWithTwoWaiters ==
    \A t \in TaskIds :
        /\ Cardinality(Reclaimers(t)) <= 1
        /\ released[t] <= 1

\* C17 as amended: a record on which at most one WaitForTask call was made
\* has at most one call past its erase and its Task is deleted at most
\* once; a thread waiting on a record, once woken with finished set, goes
\* on to erase and delete whether or not another thread did so before: of
\* two threads blocked on one record both perform them.
C17_OneReclaimPerSoleWaiter ==
    /\ [](\A t \in TaskIds :
            (Accepted(t) /\ waiters[t] <= 1) =>
               /\ Cardinality(Reclaimers(t)) <= 1
               /\ released[t] <= 1)
    /\ [](\A t \in TaskIds :
            /\ Cardinality(Reclaimers(t)) <= waiters[t]
            /\ (Accepted(t) /\ poolState # "destroyed") =>
                 released[t] <= waiters[t])
    /\ [][\A th \in Threads :
            (pc[th] = "wait_woken" /\ pc'[th] # "wait_woken") =>
               pc'[th] = IF finished[winfo[th]] THEN "wait_delete"
                         ELSE "wait_blocked"]_vars

\* Two threads are blocked in WaitForTask on the record of a task that a
\* worker is running.
C17_Witness ==
    \E t \in TaskIds : TwoWaiters(t) /\ started[t] /\ ~finished[t]

\* ------------------------------------------------------------- C18
\* The step in which worker w dequeues the name of record t.
DequeueStep(w, t) ==
    /\ pc[w] = "idle"
    /\ queue_ # <<>>
    /\ tasks_[Head(queue_)] = t
    /\ queue_' = Tail(queue_)
    /\ pc'[w] = "run"
    /\ info'[w] = t

\* C18: a finished record is a started one; no step resets started or
\* finished; finished is set only on a started record, by the worker that
\* ran it; and started is set only in the step in which a worker dequeues
\* the record's name.
C18_RecordMonotonic ==
    /\ [](\A t \in TaskIds : finished[t] => started[t])
    /\ [][\A t \in TaskIds :
            /\ started[t] => started'[t]
            /\ finished[t] => finished'[t]
            /\ (~finished[t] /\ finished'[t]) =>
                 /\ started[t]
                 /\ \E w \in Workers : MarkStep(w) /\ info[w] = t
            /\ (~started[t] /\ started'[t]) =>
                 /\ ~finished[t]
                 /\ \E w \in Workers : DequeueStep(w, t)]_vars

\* One record is finished while another is still queued.
C18_Witness ==
    \E t1, t2 \in TaskIds :
        /\ started[t1] /\ finished[t1]
        /\ Queued(t2) /\ ~started[t2] /\ ~finished[t2]

\* ------------------------------------------------------------- C19
\* Thread th is inside WaitForTask, before the erase.
InWait(th) == pc[th] \in {"wait_blocked", "wait_woken"}

\* C19: SubmitTask on a non-stopping pool under a name whose record was
\* reclaimed is accepted: the name is registered with a new record, neither
\* started nor finished, and appended to the queue.  A WaitForTask on a
\* registered name takes the record now registered and blocks unless that
\* record is finished; while it waits, its record is the registered one;
\* when it is past the wait, the Run of that record's task was invoked once.
C19_ResubmitAfterReclaim ==
    /\ [](\A th \in Threads :
            /\ InWait(th) => tasks_[name[th]] = winfo[th]
            /\ pc[th] = "wait_delete" =>
                 finished[winfo[th]] /\ runs[winfo[th]] = 1)
    /\ [][\A c \in Clients :
            /\ (SubmitCallStep(c) /\ ~stopping_ /\ reclaimed[name'[c]]) =>
                 /\ pc'[c] = "sub_notify"
                 /\ fate'[task'[c]] = "accepted"
                 /\ tasks_'[name'[c]] = task'[c]
                 /\ ~started'[task'[c]] /\ ~finished'[task'[c]]
                 /\ runs'[task'[c]] = 0
                 /\ queue_' = Append(queue_, name'[c])
            /\ (WaitCallStep(c) /\ tasks_[name'[c]] \in TaskIds) =>
                 /\ winfo'[c] = tasks_[name'[c]]
                 /\ pc'[c] = IF finished[winfo'[c]] THEN "wait_delete"
                             ELSE "wait_blocked"]_vars

\* A WaitForTask has reclaimed the record of a name; the name was submitted
\* again, and a second caller is blocked on the new, unfinished record.
C19_Witness ==
    \E c1, c2 \in Clients, nm \in Names :
        /\ result[c1] = "WaitOk" /\ name[c1] = nm
        /\ finished[winfo[c1]]
        /\ pc[c2] = "wait_blocked" /\ name[c2] = nm
        /\ winfo[c2] # winfo[c1]
        /\ tasks_[nm] = winfo[c2]
        /\ ~finished[winfo[c2]]

\* ------------------------------------------------------------- C20
\* C20: until the pool is destroyed, no name occurs twice in the queue and
\* every queued name is registered with a record that is neither started
\* nor finished; tasks_[name] in WorkerLoop therefore never inserts an
\* empty entry, and no worker dereferences one.
C20_QueuedNamesRegistered ==
    /\ poolState # "destroyed" =>
         /\ \A i, j \in 1..Len(queue_) : i # j => queue_[i] # queue_[j]
         /\ \A i \in 1..Len(queue_) :
              /\ tasks_[queue_[i]] \in TaskIds
              /\ ~started[tasks_[queue_[i]]]
              /\ ~finished[tasks_[queue_[i]]]
    /\ \A nm \in Names : tasks_[nm] # NullInfo
    /\ \A w \in WorkerIds : pc[w] # "crashed"

\* A worker has looked up the record of the name it dequeued and runs its
\* task while another name is queued.
C20_Witness ==
    /\ poolState = "live"
    /\ Len(queue_) = 1
    /\ \E w \in Workers :
         /\ pc[w] = "run"
         /\ Registered(info[w])
         /\ tasks_[queue_[1]] # info[w]

====
